---- MODULE Spec2Model ----
(***************************************************************************)
(* Model of libtexture/texfile.cpp: the texture file registry, the tile   *)
(* cache and the batch sampler of TextureSystemImpl.                       *)
(*                                                                         *)
(* Floats are represented exactly as integers in units of 1/4 (F(1) = 4): *)
(* every quantity the model computes (s*width - 0.5, fill, texels) is a   *)
(* multiple of 1/4.                                                        *)
(***************************************************************************)
EXTENDS Integers, Sequences, FiniteSets, TLC

\* ------------------------------------------------------------------ bounds
\* Lanes of a batch: runflags, s, t, fill, alpha are indexed 0..NLanes-1.
NLanes == 3
\* How many times the environment changes a file on disk in one behaviour.
MaxDiskChanges == 2

Lanes == 0 .. (NLanes - 1)
Threads == {1, 2}
\* Requested channel counts (options.nchannels) the callers use.
ChannelCounts == {1, 2, 3}
\* The caller's result buffer holds NLanes * nchannels floats; the memory the
\* model tracks extends past it, so that a write past the buffer is seen.
MemCells == 0 .. (2 * NLanes * 3)

F(x) == 4 * x

\* ------------------------------------------------------------- enumerations
\* TextureOptions::Wrap, in the order of wrap_type_name.
WrapDefault == 0
WrapBlack == 1
WrapClamp == 2
WrapPeriodic == 3
WrapMirror == 4
WrapLast == 5

\* TexFormat, in the order of texture_format_name.
TexFormatTexture == 1
TexFormatCubeFaceEnv == 7
TexFormatLast == 8

texture_format_name ==
    << "unknown", "Plain Texture", "Volume Texture", "Shadow", "CubeFace Shadow",
       "Volume Shadow", "LatLong Environment", "CubeFace Environment", "" >>

texture_type_name ==
    << "unknown", "Plain Texture", "Volume Texture", "Shadow", "Shadow",
       "Shadow", "Environment", "Environment", "" >>

\* C strings that the code scans character by character are sequences of
\* one-character strings.
wrap_type_name ==
    << <<"d","e","f","a","u","l","t">>, <<"b","l","a","c","k">>,
       <<"c","l","a","m","p">>, <<"p","e","r","i","o","d","i","c">>,
       <<"m","i","r","r","o","r">>, << >> >>

\* decode_wrapmode: the index of the first table entry below WrapLast that
\* equals name, WrapDefault when there is none.
decode_wrapmode(name) ==
    LET hits == { i \in 0 .. (WrapLast - 1) : wrap_type_name[i + 1] = name }
    IN  IF hits = {} THEN WrapDefault
        ELSE CHOOSE i \in hits : \A j \in hits : i <= j

\* parse_wrapmodes: "mode" or "smode,tmode", split at the first comma;
\* without a comma the t mode is the s mode.  Returns <<m_swrap, m_twrap>>.
parse_wrapmodes(wrapmodes) ==
    LET commas == { k \in 1 .. Len(wrapmodes) : wrapmodes[k] = "," }
        i == IF commas = {} THEN Len(wrapmodes) + 1
             ELSE CHOOSE k \in commas : \A j \in commas : k <= j
        swrap == SubSeq(wrapmodes, 1, i - 1)
        twrap == IF commas # {} THEN SubSeq(wrapmodes, i + 1, Len(wrapmodes))
                 ELSE swrap
    IN  << decode_wrapmode(swrap), decode_wrapmode(twrap) >>

\* ---------------------------------------------------------- files on disk
Files == {"a", "b", "c", "d", "e", "m"}
\* The iteration order of FilenameMap (m_texturefiles.begin() is its first
\* registered name).
FileOrder == << "a", "b", "c", "d", "e", "m" >>
\* m_file_sweep == m_texturefiles.end()
End == "end"
\* m_file_sweep as the constructor leaves it when the default-constructed
\* iterator does not compare equal to end(): it points at no entry.
Singular == "singular"

NoAttr == [type |-> "none", nvalues |-> 0, data |-> << >>]
StringAttr(s) == [type |-> "PT_STRING", nvalues |-> 1, data |-> s]
\* Numeric attributes: data is the sequence of the nvalues stored values.
IntAttr(d) == [type |-> "PT_INT", nvalues |-> Len(d), data |-> d]
FloatAttr(d) == [type |-> "PT_FLOAT", nvalues |-> Len(d), data |-> d]

FormatSpec(w, h, fw, fh, tw, th, nch, tf, wm) ==
    [wrapmodes |-> wm, width |-> w, height |-> h, full_width |-> fw,
     full_height |-> fh, tile_width |-> tw, tile_height |-> th,
     tile_depth |-> 1, nchannels |-> nch, textureformat |-> tf,
     orientation |-> IntAttr(<< 6 >>), fovcot |-> FloatAttr(<< F(2) >>)]

\* What each file holds when it can be read: the reader's format name and its
\* subimages (MIP levels), first to last.  Every subimage also carries the int
\* attribute "orientation" (6) and the float attribute "fovcot" (2.0).
ImageOf(f) ==
    CASE f = "a" ->
           [format_name |-> "tiff",
            levels |-> << FormatSpec(1024, 256, 1024, 256, 512, 256, 2,
                              StringAttr("Plain Texture"),
                              StringAttr(<<"p","e","r","i","o","d","i","c",",",
                                           "c","l","a","m","p">>)),
                          FormatSpec(512, 128, 512, 128, 512, 128, 2,
                              NoAttr, NoAttr) >>]
      [] f = "b" ->
           [format_name |-> "openexr",
            levels |-> << FormatSpec(12, 8, 4, 4, 4, 4, 1,
                              StringAttr("CubeFace Environment"), NoAttr) >>]
      [] f = "d" ->
           [format_name |-> "tiff",
            levels |-> << FormatSpec(12, 6, 12, 6, 6, 6, 1,
                              NoAttr, StringAttr(<<"d","e","f","a","u","l","t">>)) >>]
      [] f = "e" ->
           [format_name |-> "tiff",
            levels |-> << FormatSpec(8, 8, 8, 8, 8, 8, 1,
                              NoAttr, StringAttr(<<"w","r","a","p">>)) >>]
      [] OTHER ->
           [format_name |-> "tiff",
            levels |-> << FormatSpec(8, 8, 8, 8, 8, 8, 1,
                              NoAttr, StringAttr(<<"m","i","r","r","o","r">>)) >>]

\* The texel of file f at (x, y), channel c, level 0, as a float.
Texel(f, x, y, c) ==
    LET k == CHOOSE i \in 1 .. Len(FileOrder) : FileOrder[i] = f
    IN  F(100 * k + 10 * ((x + y) % 7) + c + 1)

\* ImageIOFormatSpec::tile_pixels
tile_pixels(spec) == spec.tile_width * spec.tile_height * spec.tile_depth

\* typesize(PT_FLOAT)
FloatSize == 4

\* a & b for a, b >= 0
RECURSIVE BitAnd(_, _)
BitAnd(a, b) ==
    IF a = 0 \/ b = 0 THEN 0
    ELSE (a % 2) * (b % 2) + 2 * BitAnd(a \div 2, b \div 2)

\* -------------------------------------------------------------------- state
VARIABLES
    disk,              \* per file, what the image reader finds on disk
    diskChanges,       \* how many times the environment changed disk
    m_texturefiles,    \* FilenameMap: registered filename -> TextureFile
    m_open_files,      \* TextureSystemImpl::m_open_files
    m_max_open_files,  \* the open-file budget
    m_max_memory_MB,   \* the tile-byte budget, in MB
    m_file_sweep,      \* the sweep cursor: a registered filename, or End
    tilecache,         \* TileCache: TileID -> Tile
    crashed,           \* the process was aborted (failed ASSERT, null reader)
    reopened,          \* history: files whose reader was closed and opened again
    pc,                \* per thread, its position in texture()/gettextureinfo()
    call,              \* per thread, the arguments of its call
    options,           \* per thread, the fields of options the call writes
    lane,              \* per thread, the lane index i of texture()'s loop
    result,            \* per thread, the memory at and after float *result
    alpha,             \* per thread, the caller's alpha array
    info               \* per thread, gettextureinfo's return value and output

vars == << disk, diskChanges, m_texturefiles, m_open_files, m_max_open_files,
           m_max_memory_MB, m_file_sweep, tilecache, crashed, reopened,
           pc, call, options, lane, result, alpha, info >>

\* What an image reader can do with a file: "ok"; "nocreate" (ImageInput::create
\* finds no reader for it); "noopen" (the reader's open fails); "noread" (it
\* opens, and every read_tile fails).
DiskStates == {"ok", "nocreate", "noopen", "noread"}

\* The registry, counter, cursor and cache as one value, threaded through the
\* calls of one locked section.
Sys ==
    [crashed |-> crashed, reopened |-> reopened, files |-> m_texturefiles,
     open_files |-> m_open_files, sweep |-> m_file_sweep, cache |-> tilecache,
     hung |-> FALSE]

\* ------------------------------------------------------------- TextureFile
\* The fields the constructor's initializer list sets, before open().
NewTextureFile ==
    [m_input |-> FALSE, m_used |-> TRUE, m_broken |-> FALSE,
     m_texformat |-> TexFormatTexture, m_swrap |-> WrapBlack,
     m_twrap |-> WrapBlack, m_cubelayout |-> "CubeUnknown", m_y_up |-> FALSE,
     m_spec |-> << >>]

\* opened(): the file holds a reader.
opened(tf) == tf.m_input

\* use()
use(tf) == [tf EXCEPT !.m_used = TRUE]

\* The textureformat attribute matched against texture_format_name.
DecodeTexFormat(p) ==
    LET hits == { i \in 0 .. (TexFormatLast - 1) : texture_format_name[i + 1] = p.data }
    IN  IF p.type = "PT_STRING" /\ p.nvalues = 1 /\ hits # {}
        THEN CHOOSE i \in hits : \A j \in hits : i <= j
        ELSE TexFormatTexture

Max(a, b) == IF a >= b THEN a ELSE b

\* The cube layout of a cube-face environment map, from its dimensions.
CubeLayoutOf(spec) ==
    LET w == Max(spec.full_width, spec.tile_width)
        h == Max(spec.full_height, spec.tile_height)
    IN  IF spec.width = 3 * w /\ spec.height = 2 * h THEN "CubeThreeByTwo"
        ELSE IF spec.width = w /\ spec.height = 6 * h THEN "CubeOneBySix"
        ELSE "CubeLast"

\* open(), first successful open of the file: read every subimage's spec and
\* fill in the fields of the TextureFile from the first one.
FirstOpen(tf, f) ==
    LET img == ImageOf(f)
        spec == (tf.m_spec \o img.levels)[1]
        fmt == DecodeTexFormat(spec.textureformat)
        wm == spec.wrapmodes
        wraps == IF wm.type = "PT_STRING" /\ wm.nvalues = 1
                 THEN parse_wrapmodes(wm.data)
                 ELSE << tf.m_swrap, tf.m_twrap >>
        cube == fmt = TexFormatCubeFaceEnv
    IN  [tf EXCEPT !.m_spec = tf.m_spec \o img.levels,
                   !.m_texformat = fmt,
                   !.m_swrap = wraps[1],
                   !.m_twrap = wraps[2],
                   !.m_y_up = cube /\ img.format_name = "openexr",
                   !.m_cubelayout = IF cube THEN CubeLayoutOf(spec) ELSE @]

\* A failed open that keeps the reader create() made.
OpenFailedNoReset(tf) == [tf EXCEPT !.m_broken = TRUE]

\* open(): the reader's open() failed after create() made a reader.
OpenFailed(tf) == [tf EXCEPT !.m_broken = TRUE, !.m_input = FALSE]

\* An open that reads the subimages again on every reopen.
OpenedAlwaysReads(tf, f) == FirstOpen(tf, f)

\* open(): a reader is open; the file was opened before iff m_spec is filled.
Opened(tf, f) == IF Len(tf.m_spec) > 0 THEN tf ELSE FirstOpen(tf, f)

\* TextureFile::open
open(sys, f) ==
    LET tf == sys.files[f]
    IN  IF tf.m_input THEN sys
        ELSE IF tf.m_broken THEN sys
        ELSE IF disk[f] = "nocreate"
             THEN [sys EXCEPT !.files[f].m_broken = TRUE]
        ELSE IF disk[f] = "noopen"
             THEN [sys EXCEPT !.files[f] = OpenFailed([tf EXCEPT !.m_input = TRUE])]
        ELSE [sys EXCEPT !.open_files = @ + 1,
                         !.files[f] = Opened(use([tf EXCEPT !.m_input = TRUE]), f),
                         !.reopened = IF Len(tf.m_spec) > 0 THEN @ \cup {f} ELSE @]

\* TextureFile::release
release(sys, f) ==
    LET tf == sys.files[f]
    IN  IF tf.m_used THEN [sys EXCEPT !.files[f].m_used = FALSE]
        ELSE IF opened(tf)
             THEN [sys EXCEPT !.files[f].m_input = FALSE,
                              !.files[f].m_used = FALSE,
                              !.open_files = @ - 1]
        ELSE sys

\* TextureFile::read_tile: returns <<sys, ok>>.  With no reader after open()
\* (the file is broken) the call goes through a null m_input: the process is
\* aborted.  With a reader, the read succeeds unless the file's tiles are
\* unreadable.
read_tile(sys, f) ==
    LET s1 == open(sys, f)
    IN  IF ~ s1.files[f].m_input THEN << [s1 EXCEPT !.crashed = TRUE], FALSE >>
        ELSE << s1, disk[f] # "noread" >>

\* ------------------------------------------------------------ FileRegistry
\* m_texturefiles.begin(): the first registered name in map order, End for an
\* empty map.
Begin(files) ==
    LET ks == { i \in 1 .. Len(FileOrder) : FileOrder[i] \in DOMAIN files }
    IN  IF ks = {} THEN End
        ELSE FileOrder[CHOOSE i \in ks : \A j \in ks : i <= j]

\* A sweep that stops one file too early.
OverBudgetStrict(open_files, max_files) == open_files > max_files

\* The loop condition of check_max_files.
OverBudget(open_files, max_files) == open_files >= max_files

\* TextureSystemImpl::check_max_files.  The loop body is a function of the
\* registry, the counter and the cursor: an iteration that changes none of
\* them while the condition holds repeats forever (hung).  The ASSERT aborts
\* the process when the map is empty; so does the release() through a cursor
\* that points at no entry.
RECURSIVE check_max_files(_)
check_max_files(sys) ==
    IF ~ OverBudget(sys.open_files, m_max_open_files) THEN sys
    ELSE LET s0 == IF sys.sweep = End
                   THEN [sys EXCEPT !.sweep = Begin(sys.files)]
                   ELSE sys
         IN  IF s0.sweep \in {End, Singular} THEN [s0 EXCEPT !.crashed = TRUE]
             ELSE LET s1 == release(s0, s0.sweep)
                  IN  IF s1 = sys THEN [s1 EXCEPT !.hung = TRUE]
                      ELSE check_max_files(s1)

\* The miss branch of find_texturefile: sweep, construct (the constructor
\* calls open()), insert.
Register(sys, f) ==
    LET s1 == check_max_files(sys)
    IN  IF s1.hung \/ s1.crashed THEN s1
        ELSE open([s1 EXCEPT !.files = [g \in DOMAIN @ \cup {f} |->
                                   IF g = f THEN NewTextureFile ELSE @[g]]], f)

\* TextureSystemImpl::find_texturefile, under m_texturefiles_mutex: the
\* registry after the call; the handle returned is the entry of f.
find_texturefile(sys, f) ==
    LET s1 == IF f \notin DOMAIN sys.files THEN Register(sys, f) ELSE sys
    IN  IF s1.hung \/ s1.crashed THEN s1
        ELSE [s1 EXCEPT !.files[f] = use(@)]

\* --------------------------------------------------------------- TileCache
\* A tile key that leaves the file out: tiles of different files at the same
\* origin would share a cache entry.
TileIDNoFile(f, level, x, y, z) == << "", level, x, y, z >>

\* TileID: file, level, x, y, z.
TileID(f, level, x, y, z) == << f, level, x, y, z >>

\* Tile::Tile: the texel buffer is sized and zeroed, then read through the
\* file; a failed read is reported on stderr and the tile is kept (m_valid
\* stays true).  Returns <<sys, tile>>; src is the file the texels came from.
NewTile(sys, f) ==
    LET r == read_tile(sys, f)
    IN  << r[1], [m_used |-> TRUE, m_valid |-> TRUE, loaded |-> r[2], src |-> f] >>

\* TextureSystemImpl::find_tile, under m_texturefiles_mutex: <<sys, tile>>.
find_tile(sys, f, id) ==
    IF id \in DOMAIN sys.cache THEN << sys, sys.cache[id] >>
    ELSE LET r == NewTile(sys, f)
         IN  << [r[1] EXCEPT !.cache = [k \in DOMAIN @ \cup {id} |->
                                          IF k = id THEN r[2] ELSE @[k]]],
                r[2] >>

\* Bytes of the texel buffer of a tile of file f.
TileBytes(f) ==
    LET spec == ImageOf(f).levels[1]
    IN  tile_pixels(spec) * spec.nchannels * FloatSize

RECURSIVE SumBytes(_)
SumBytes(ids) ==
    IF ids = {} THEN 0
    ELSE LET id == CHOOSE k \in ids : TRUE
         IN  TileBytes(tilecache[id].src) + SumBytes(ids \ {id})

\* Total bytes of the tile buffers the cache holds.
CacheBytes == SumBytes(DOMAIN tilecache)

\* What a read past the end of a tile's buffer returns: memory the tile does
\* not own, a value no texel, fill or coordinate has.
PastBuffer(idx) == 0 - (9000 + idx)

\* tile->data()[idx]: the float at index idx of the tile's buffer.  The buffer
\* of a tile at origin (x, y) holds tile_pixels * nchannels floats, pixel by
\* pixel, zero where the read failed.  An index past the buffer reads memory
\* the tile does not own.
TileData(tile, id, idx) ==
    LET spec == ImageOf(tile.src).levels[1]
        pix == idx \div spec.nchannels
    IN  IF idx >= tile_pixels(spec) * spec.nchannels THEN PastBuffer(idx)
        ELSE IF ~ tile.loaded THEN 0
        ELSE Texel(tile.src, id[3] + (pix % spec.tile_width),
                   id[4] + (pix \div spec.tile_width), idx % spec.nchannels)

\* ----------------------------------------------------------------- Sampler
\* The varying inputs of a batch, per lane: s, t (in [0,1) inside the
\* texture) and options.fill.  Lane 2 of every four lies outside the texture.
SCoord(i) == CASE i % 4 = 0 -> 1 [] i % 4 = 1 -> 3 [] i % 4 = 2 -> 0 - 1 [] OTHER -> 1
TCoord(i) == CASE i % 4 = 3 -> 3 [] OTHER -> 1
Fill(i) == F(50 + i)

\* What the caller's buffers hold before a call.
PriorResult == [k \in MemCells |-> 0 - (1000 + k)]
PriorAlpha == [i \in Lanes |-> 0 - (2000 + i)]

\* Imath::clamp
clamp(a, l, h) == IF a < l THEN l ELSE IF a > h THEN h ELSE a

\* texture(), file missing or broken: the loop of lines 484-492.  result is
\* advanced by nchannels once per iteration, starting from the buffer's
\* beginning at i = firstactive, so lane i is written at (i - firstactive) *
\* nchannels.  options.fill is written without a lane index; the model gives
\* it the lane's own value.  Returns <<result, alpha>>.
BrokenFill(c, res, al) ==
    LET C == c.nchannels
        act == { i \in c.first .. c.last : c.runflags[i] }
    IN  << [k \in MemCells |->
              IF \E i \in act : k \in ((i - c.first) * C) .. ((i - c.first) * C + C - 1)
              THEN Fill(CHOOSE i \in act :
                          k \in ((i - c.first) * C) .. ((i - c.first) * C + C - 1))
              ELSE res[k]],
           [i \in Lanes |-> IF i \in act /\ c.wantalpha THEN Fill(i) ELSE al[i]] >>

\* texture(), lines 496-503: the options after wrap defaulting and
\* actualchannels.
BatchOptions(c, opts, tf) ==
    [opts EXCEPT !.swrap = IF @ = WrapDefault THEN tf.m_swrap ELSE @,
                 !.twrap = IF @ = WrapDefault THEN tf.m_twrap ELSE @,
                 !.actualchannels =
                     clamp(tf.m_spec[1].nchannels - c.firstchannel, 0, c.nchannels)]

\* texture(), lines 505-514: channels requested but not in the file.
ChannelFill(c, actual, res) ==
    [k \in MemCells |->
        IF \E i \in c.first .. c.last :
              c.runflags[i] /\ k \in (i * c.nchannels + actual) ..
                                     (i * c.nchannels + c.nchannels - 1)
        THEN Fill(k \div c.nchannels)
        ELSE res[k]]

\* texture(), line 516: alpha is requested and the file has no channel for it.
AlphaMissing(opts, C) == opts.alpha /\ opts.actualchannels + 1 < C

\* texture(), lines 516-520: the loop writes alpha[i] for every i of the
\* window, then options.alpha is reset.
AlphaFill(c, al) ==
    [i \in Lanes |-> IF i \in c.first .. c.last THEN Fill(i) ELSE al[i]]

\* The next active lane at or after i, c.last + 1 when there is none.
NextActive(c, i) ==
    LET act == { j \in i .. c.last : c.runflags[j] }
    IN  IF act = {} THEN c.last + 1
        ELSE CHOOSE j \in act : \A k \in act : j <= k

\* texture_lookup: the float texel coordinate s * width - 0.5 floored
\* (floorfrac), s in units of 1/4.
TexelCoord(sq, res) == (sq * res - 2) \div 4

\* texture_lookup, line 592.
Outside(sint, tint, spec) ==
    sint < 0 \/ sint >= spec.width \/ tint < 0 \/ tint >= spec.height

\* texture_lookup, line 569: where the lookup of lane index writes, as an
\* index into the caller's buffer.  texture() passes result + i * nchannels
\* and texture_lookup adds index * nchannels again.
LookupBase(index, C) == index * C + index * C

\* texture_lookup, lines 597-602: the tile the texel (sint, tint) is in.
LookupTileID(f, spec, sint, tint) ==
    LET tile_s == BitAnd(sint, spec.tile_width - 1)
        tile_t == BitAnd(tint, spec.tile_height - 1)
    IN  TileID(f, 0, sint - tile_s, tint - tile_t, 0)

\* texture_lookup, line 611.
LookupOffset(spec, sint, tint) ==
    BitAnd(tint, spec.tile_height - 1) * spec.tile_width
        + BitAnd(sint, spec.tile_width - 1)

\* texture_lookup, lines 569-571: s and t are written to the first two floats.
LookupHead(c, index, res) ==
    LET base == LookupBase(index, c.nchannels)
    IN  [res EXCEPT ![base] = SCoord(index), ![base + 1] = TCoord(index)]

\* texture_lookup, lines 592-595: a lookup outside the texture.
LookupOutside(c, index, res) ==
    [LookupHead(c, index, res) EXCEPT ![LookupBase(index, c.nchannels)] = F(1)]

\* texture_lookup, lines 610-617: the gather from the tile.
\* Returns <<result, alpha>>.
LookupGather(c, opts, spec, index, tile, id, sint, tint, res, al) ==
    LET base == LookupBase(index, c.nchannels)
        at == LookupOffset(spec, sint, tint) * spec.nchannels
        head == LookupHead(c, index, res)
    IN  << [k \in MemCells |->
              IF k \in base .. (base + opts.actualchannels - 1)
              THEN TileData(tile, id, at + c.firstchannel + (k - base))
              ELSE head[k]],
           IF opts.alpha
           THEN [al EXCEPT ![index] =
                    TileData(tile, id, at + c.firstchannel + opts.actualchannels)]
           ELSE al >>

\* texture_lookup for lane index, given the tile find_tile returns for its
\* texel.  Returns <<result, alpha>>.
texture_lookup(c, opts, spec, index, tile, res, al) ==
    LET sint == TexelCoord(SCoord(index), spec.width)
        tint == TexelCoord(TCoord(index), spec.height)
        id == LookupTileID(c.filename, spec, sint, tint)
    IN  IF Outside(sint, tint, spec)
        THEN << LookupOutside(c, index, res), al >>
        ELSE LookupGather(c, opts, spec, index, tile, id, sint, tint, res, al)

\* ---------------------------------------------------------- gettextureinfo
PT_INT == "PT_INT"
PT_FLOAT == "PT_FLOAT"
PT_STRING == "PT_STRING"

\* ParamType(basetype, arraylen)
ParamType(basetype, arraylen) == [basetype |-> basetype, arraylen |-> arraylen]

\* What the caller's output buffer holds before the call.
PriorInfo == [data |-> << >>, ok |-> FALSE, written |-> FALSE]

\* ImageIOFormatSpec::find_attribute
find_attribute(spec, name) ==
    IF name \in {"textureformat", "wrapmodes", "orientation", "fovcot"}
    THEN spec[name] ELSE NoAttr

\* gettextureinfo, line 455: memcpy of the stored values to data.
CopyOf(p) == IF p.type = "PT_STRING" THEN << p.data >> ELSE p.data

\* gettextureinfo, line 461: ((int *)p->data())[i] read from a stored float
\* is the float's bit pattern taken as an int; assigning it to a float
\* converts that int.  The result is neither the stored float nor the float
\* of any stored int.
FloatOfIntRead(v) == << "float of the int with the bits of float", v >>

\* gettextureinfo after find_texturefile, lines 418-466: the return value and
\* what is written to data.
InfoOf(tf, dataname, datatype) ==
    LET spec == tf.m_spec[1]
        p == find_attribute(spec, dataname)
        Wrote(d) == [data |-> d, ok |-> TRUE, written |-> TRUE]
    IN  IF tf.m_broken THEN PriorInfo
        ELSE IF dataname = "resolution" /\ datatype = ParamType(PT_INT, 2)
             THEN Wrote(<< spec.width, spec.height >>)
        ELSE IF dataname = "texturetype" /\ datatype = ParamType(PT_STRING, 1)
             THEN Wrote(<< texture_type_name[tf.m_texformat + 1] >>)
        ELSE IF dataname = "textureformat" /\ datatype = ParamType(PT_STRING, 1)
             THEN Wrote(<< texture_format_name[tf.m_texformat + 1] >>)
        ELSE IF dataname = "channels" /\ datatype = ParamType(PT_INT, 1)
             THEN Wrote(<< spec.nchannels >>)
        ELSE IF dataname = "channels" /\ datatype = ParamType(PT_FLOAT, 1)
             THEN Wrote(<< F(spec.nchannels) >>)
        ELSE IF p # NoAttr /\ p.nvalues = datatype.arraylen
                  /\ p.type = datatype.basetype
             THEN Wrote(CopyOf(p))
        ELSE IF p # NoAttr /\ p.nvalues = datatype.arraylen
                  /\ p.type = PT_FLOAT /\ datatype.basetype = PT_INT
             THEN Wrote([i \in 1 .. p.nvalues |->
                            FloatOfIntRead(p.data[i])])
        ELSE PriorInfo

\* ------------------------------------------------------------------ actions
\* m_texturefiles_mutex is held by a thread that never leaves check_max_files.
LockHeld == \E th \in Threads : pc[th] = "hung"

\* A thread that is in no call.
Ready(th) == pc[th] = "idle"

Commit(sys) ==
    /\ m_texturefiles' = sys.files
    /\ m_open_files' = sys.open_files
    /\ m_file_sweep' = sys.sweep
    /\ tilecache' = sys.cache
    /\ crashed' = sys.crashed
    /\ reopened' = sys.reopened

\* The arguments of a texture() call.
TexCall(f, C, fc, wa, lo, hi, rf) ==
    [swrap |-> WrapDefault, twrap |-> WrapDefault, nchannels |-> C,
     first |-> lo, last |-> hi, runflags |-> rf, wantalpha |-> wa,
     firstchannel |-> fc, filename |-> f, dataname |-> "",
     datatype |-> ParamType(PT_INT, 1), op |-> "texture"]

\* A texture() call whose options name the wrap modes sw and tw.
TexCallWrap(f, sw, tw, C, lo, hi, rf) ==
    [TexCall(f, C, 0, FALSE, lo, hi, rf) EXCEPT !.swrap = sw, !.twrap = tw]

\* The arguments of a gettextureinfo() call.
InfoCall(f, dataname, datatype) ==
    [swrap |-> WrapDefault, twrap |-> WrapDefault, nchannels |-> 1,
     first |-> 0, last |-> 0, runflags |-> [i \in Lanes |-> FALSE],
     wantalpha |-> FALSE, firstchannel |-> 0, filename |-> f,
     dataname |-> dataname, datatype |-> datatype, op |-> "gettextureinfo"]

NoCall == InfoCall("", "", ParamType(PT_INT, 1))

OptionsOf(c) ==
    [swrap |-> c.swrap, twrap |-> c.twrap, alpha |-> c.wantalpha,
     actualchannels |-> 0]

\* The configuration setters max_open_files(n) and max_memory_MB(m), called
\* before the first file is registered.
SetMaxOpenFiles(n) ==
    /\ ~ crashed
    /\ DOMAIN m_texturefiles = {}
    /\ m_max_open_files # n
    /\ m_max_open_files' = n
    /\ UNCHANGED << disk, diskChanges, m_texturefiles, m_open_files,
                    m_max_memory_MB, m_file_sweep, tilecache, crashed, reopened,
                    pc, call, options, lane, result, alpha, info >>

SetMaxMemoryMB(m) ==
    /\ ~ crashed
    /\ DOMAIN m_texturefiles = {}
    /\ m_max_memory_MB # m
    /\ m_max_memory_MB' = m
    /\ UNCHANGED << disk, diskChanges, m_texturefiles, m_open_files,
                    m_max_open_files, m_file_sweep, tilecache, crashed, reopened,
                    pc, call, options, lane, result, alpha, info >>

\* The environment: the file f on disk changes to d.
DiskChange(f, d) ==
    /\ ~ crashed
    /\ diskChanges < MaxDiskChanges
    /\ disk[f] # d
    /\ disk' = [disk EXCEPT ![f] = d]
    /\ diskChanges' = diskChanges + 1
    /\ UNCHANGED << m_texturefiles, m_open_files, m_max_open_files,
                    m_max_memory_MB, m_file_sweep, tilecache, crashed, reopened,
                    pc, call, options, lane, result, alpha, info >>

\* texture(), line 481: the call starts and find_texturefile runs under the
\* registry mutex.
TextureFind(th, c) ==
    /\ ~ crashed /\ ~ LockHeld /\ Ready(th)
    /\ LET s == find_texturefile(Sys, c.filename)
       IN  /\ Commit(s)
           /\ pc' = [pc EXCEPT ![th] = IF s.hung THEN "hung" ELSE "found"]
    /\ call' = [call EXCEPT ![th] = c]
    /\ options' = [options EXCEPT ![th] = OptionsOf(c)]
    /\ lane' = [lane EXCEPT ![th] = c.first]
    /\ result' = [result EXCEPT ![th] = PriorResult]
    /\ alpha' = [alpha EXCEPT ![th] = PriorAlpha]
    /\ info' = [info EXCEPT ![th] = PriorInfo]
    /\ UNCHANGED << disk, diskChanges, m_max_open_files, m_max_memory_MB >>

\* texture(), lines 482-523: the broken-file path, or the batch-level work
\* of a readable file.
TextureBatch(th) ==
    /\ ~ crashed /\ pc[th] = "found"
    /\ LET c == call[th]
           tf == m_texturefiles[c.filename]
           o == BatchOptions(c, options[th], tf)
           missing == AlphaMissing(o, c.nchannels)
           n == NextActive(c, c.first)
           bf == BrokenFill(c, result[th], alpha[th])
       IN  IF tf.m_broken
           THEN /\ result' = [result EXCEPT ![th] = bf[1]]
                /\ alpha' = [alpha EXCEPT ![th] = bf[2]]
                /\ pc' = [pc EXCEPT ![th] = "done"]
                /\ UNCHANGED << options, lane >>
           ELSE /\ result' = [result EXCEPT ![th] =
                      IF o.actualchannels < c.nchannels
                      THEN ChannelFill(c, o.actualchannels, @) ELSE @]
                /\ alpha' = [alpha EXCEPT ![th] =
                      IF missing THEN AlphaFill(c, @) ELSE @]
                /\ options' = [options EXCEPT ![th] =
                      [o EXCEPT !.alpha = IF missing THEN FALSE ELSE @]]
                /\ lane' = [lane EXCEPT ![th] = n]
                /\ pc' = [pc EXCEPT ![th] =
                      IF o.actualchannels < 1 \/ n > c.last THEN "done" ELSE "lanes"]
    /\ UNCHANGED << disk, diskChanges, m_texturefiles, m_open_files,
                    m_max_open_files, m_max_memory_MB, m_file_sweep, tilecache,
                    crashed, reopened, call, info >>

\* texture(), lines 533-548, one iteration for an active lane: texture_lookup
\* with find_tile under the registry mutex; then the loop moves to the next
\* active lane, or texture() returns.
TextureLookup(th) ==
    /\ ~ crashed /\ pc[th] = "lanes"
    /\ LET c == call[th]
           i == lane[th]
           f == c.filename
           spec == m_texturefiles[f].m_spec[1]
           sint == TexelCoord(SCoord(i), spec.width)
           tint == TexelCoord(TCoord(i), spec.height)
           r == find_tile(Sys, f, LookupTileID(f, spec, sint, tint))
           g == texture_lookup(c, options[th], spec, i, r[2], result[th], alpha[th])
           n == NextActive(c, i + 1)
       IN  /\ IF Outside(sint, tint, spec)
              THEN UNCHANGED << m_texturefiles, m_open_files, m_file_sweep,
                                tilecache, crashed, reopened >>
              ELSE ~ LockHeld /\ Commit(r[1])
           /\ result' = [result EXCEPT ![th] =
                 IF ~ Outside(sint, tint, spec) /\ r[1].crashed
                 THEN LookupHead(c, i, @) ELSE g[1]]
           /\ alpha' = [alpha EXCEPT ![th] =
                 IF ~ Outside(sint, tint, spec) /\ r[1].crashed THEN @ ELSE g[2]]
           /\ lane' = [lane EXCEPT ![th] = n]
           /\ pc' = [pc EXCEPT ![th] = IF n > c.last THEN "done" ELSE "lanes"]
    /\ UNCHANGED << disk, diskChanges, m_max_open_files, m_max_memory_MB,
                    call, options, info >>

\* gettextureinfo, line 413: find_texturefile under the registry mutex.
InfoFind(th, c) ==
    /\ ~ crashed /\ ~ LockHeld /\ Ready(th)
    /\ LET s == find_texturefile(Sys, c.filename)
       IN  /\ Commit(s)
           /\ pc' = [pc EXCEPT ![th] = IF s.hung THEN "hung" ELSE "gfound"]
    /\ call' = [call EXCEPT ![th] = c]
    /\ options' = [options EXCEPT ![th] = OptionsOf(c)]
    /\ lane' = [lane EXCEPT ![th] = c.first]
    /\ result' = [result EXCEPT ![th] = PriorResult]
    /\ alpha' = [alpha EXCEPT ![th] = PriorAlpha]
    /\ info' = [info EXCEPT ![th] = PriorInfo]
    /\ UNCHANGED << disk, diskChanges, m_max_open_files, m_max_memory_MB >>

\* gettextureinfo, lines 418-466.
InfoRead(th) ==
    /\ ~ crashed /\ pc[th] = "gfound"
    /\ info' = [info EXCEPT ![th] =
          InfoOf(m_texturefiles[call[th].filename], call[th].dataname,
                 call[th].datatype)]
    /\ pc' = [pc EXCEPT ![th] = "gdone"]
    /\ UNCHANGED << disk, diskChanges, m_texturefiles, m_open_files,
                    m_max_open_files, m_max_memory_MB, m_file_sweep, tilecache,
                    crashed, reopened, call, options, lane, result, alpha >>

\* TextureFile::open, read_tile and release called on a registered file by a
\* holder of its handle, under m_texturefiles_mutex.
FileOpen(f) ==
    /\ ~ crashed /\ ~ LockHeld /\ f \in DOMAIN m_texturefiles
    /\ Commit(open(Sys, f))
    /\ UNCHANGED << disk, diskChanges, m_max_open_files, m_max_memory_MB,
                    pc, call, options, lane, result, alpha, info >>

FileReadTile(f) ==
    /\ ~ crashed /\ ~ LockHeld /\ f \in DOMAIN m_texturefiles
    /\ Commit(read_tile(Sys, f)[1])
    /\ UNCHANGED << disk, diskChanges, m_max_open_files, m_max_memory_MB,
                    pc, call, options, lane, result, alpha, info >>

FileRelease(f) ==
    /\ ~ crashed /\ ~ LockHeld /\ f \in DOMAIN m_texturefiles
    /\ Commit(release(Sys, f))
    /\ UNCHANGED << disk, diskChanges, m_max_open_files, m_max_memory_MB,
                    pc, call, options, lane, result, alpha, info >>

\* The caller has taken the outputs of its finished call; its buffers are
\* given up and it may call again.
CallerDone(th) ==
    /\ ~ crashed /\ pc[th] \in {"done", "gdone"}
    /\ pc' = [pc EXCEPT ![th] = "idle"]
    /\ call' = [call EXCEPT ![th] = NoCall]
    /\ options' = [options EXCEPT ![th] = OptionsOf(NoCall)]
    /\ lane' = [lane EXCEPT ![th] = 0]
    /\ result' = [result EXCEPT ![th] = PriorResult]
    /\ alpha' = [alpha EXCEPT ![th] = PriorAlpha]
    /\ info' = [info EXCEPT ![th] = PriorInfo]
    /\ UNCHANGED << disk, diskChanges, m_texturefiles, m_open_files,
                    m_max_open_files, m_max_memory_MB, m_file_sweep, tilecache,
                    crashed, reopened >>

\* ------------------------------------------------------------ specifications
\* TextureSystemImpl::TextureSystemImpl and init(): no file registered, no
\* tile cached, the budgets at their defaults; every file but "m" is on disk.
\* The constructor does not set m_file_sweep: the default-constructed cursor
\* either compares equal to end() or points at no entry.
Init ==
    /\ disk = [f \in Files |-> IF f = "m" THEN "nocreate" ELSE "ok"]
    /\ diskChanges = 0
    /\ m_texturefiles = << >>
    /\ m_open_files = 0
    /\ m_max_open_files = 100
    /\ m_max_memory_MB = 50
    /\ m_file_sweep \in {End, Singular}
    /\ tilecache = << >>
    /\ crashed = FALSE
    /\ reopened = {}
    /\ pc = [th \in Threads |-> "idle"]
    /\ call = [th \in Threads |-> NoCall]
    /\ options = [th \in Threads |-> OptionsOf(NoCall)]
    /\ lane = [th \in Threads |-> 0]
    /\ result = [th \in Threads |-> PriorResult]
    /\ alpha = [th \in Threads |-> PriorAlpha]
    /\ info = [th \in Threads |-> PriorInfo]

AllOn == [i \in Lanes |-> TRUE]

\* A single caller, any file, one-channel batches over the first two lanes;
\* the files on disk come and go.
Next ==
    \/ \E n \in 1 .. 2 : SetMaxOpenFiles(n)
    \/ \E f \in {"a", "b"}, d \in {"ok", "noopen"} : DiskChange(f, d)
    \/ \E f \in Files : TextureFind(1, TexCall(f, 1, 0, FALSE, 0, 1, AllOn))
    \/ TextureBatch(1)
    \/ TextureLookup(1)
    \/ \E f \in Files : InfoFind(1, InfoCall(f, "channels", ParamType(PT_INT, 1)))
    \/ InfoRead(1)
    \/ CallerDone(1)

Spec == Init /\ [][Next]_vars

\* Only find_texturefile calls (one per gettextureinfo call) on a registry
\* with a budget of one or two open files.
NextRegistry ==
    \/ \E n \in 1 .. 2 : SetMaxOpenFiles(n)
    \/ \E f \in {"a", "b"}, d \in {"ok", "noopen"} : DiskChange(f, d)
    \/ \E f \in Files, dn \in {"channels", "resolution"} :
          InfoFind(1, InfoCall(f, dn, ParamType(PT_INT, 1)))
    \/ InfoRead(1)
    \/ CallerDone(1)

SpecRegistry == Init /\ [][NextRegistry]_vars

\* A single caller and a holder of file handles that opens, reads and
\* releases the registered files directly; the files on disk come and go.
NextFile ==
    \/ \E f \in {"a", "b"}, d \in {"ok", "noopen"} : DiskChange(f, d)
    \/ \E f \in {"a", "b"} : TextureFind(1, TexCall(f, 1, 0, FALSE, 0, 0, AllOn))
    \/ TextureBatch(1)
    \/ TextureLookup(1)
    \/ InfoFind(1, InfoCall("m", "channels", ParamType(PT_INT, 1)))
    \/ InfoRead(1)
    \/ CallerDone(1)
    \/ \E f \in {"a", "b", "m"} : FileOpen(f)
    \/ \E f \in {"a", "b", "m"} : FileReadTile(f)
    \/ \E f \in {"a", "b", "m"} : FileRelease(f)

SpecFile == Init /\ [][NextFile]_vars

EvenOn == [i \in Lanes |-> i % 2 = 0]
OddOn == [i \in Lanes |-> i % 2 = 1]

\* A single caller sampling the two-channel file "a" and the missing file "m"
\* with every window, channel range and alpha request; the tiles of "a" may be
\* unreadable; the tile budget is 1 MB.
NextSampler ==
    \/ SetMaxMemoryMB(1)
    \/ DiskChange("a", "noread")
    \/ \E f \in {"a", "m"}, C \in ChannelCounts, fc \in {0, 1}, wa \in BOOLEAN,
          lo \in Lanes, hi \in Lanes, rf \in {AllOn, EvenOn, OddOn} :
          lo <= hi /\ TextureFind(1, TexCall(f, C, fc, wa, lo, hi, rf))
    \/ TextureBatch(1)
    \/ TextureLookup(1)
    \/ CallerDone(1)

SpecSampler == Init /\ [][NextSampler]_vars

\* Two callers sampling "a" and "b" and querying them, with a budget of one
\* open file; the files on disk do not change.
NextConc ==
    \/ SetMaxOpenFiles(1)
    \/ \E th \in Threads, f \in {"a", "b"}, hi \in {0, 1} :
          TextureFind(th, TexCall(f, 1, 0, FALSE, 0, hi, AllOn))
    \/ \E th \in Threads : TextureBatch(th)
    \/ \E th \in Threads : TextureLookup(th)
    \/ \E th \in Threads, f \in {"a", "b"} :
          InfoFind(th, InfoCall(f, "channels", ParamType(PT_INT, 1)))
    \/ \E th \in Threads : InfoRead(th)
    \/ \E th \in Threads : CallerDone(th)

SpecConc == Init /\ [][NextConc]_vars

\* ------------------------------------------------------------------ claims
\* The files whose reader is open.
OpenFiles == { f \in DOMAIN m_texturefiles : opened(m_texturefiles[f]) }

\* The active lanes of a call.
Active(c) == { i \in c.first .. c.last : c.runflags[i] }

\* The result cells of lane i in a batch of C channels.
LaneCells(i, C) == (i * C) .. (i * C + C - 1)

\* The texel coordinates lane i addresses in file f, and whether they fall
\* inside the texture.
LaneS(f, i) == TexelCoord(SCoord(i), m_texturefiles[f].m_spec[1].width)
LaneT(f, i) == TexelCoord(TCoord(i), m_texturefiles[f].m_spec[1].height)
LaneInside(f, i) == ~ Outside(LaneS(f, i), LaneT(f, i), m_texturefiles[f].m_spec[1])
LaneTile(f, i) ==
    LookupTileID(f, m_texturefiles[f].m_spec[1], LaneS(f, i), LaneT(f, i))

\* C1: after every find_texturefile call that returns, at most
\* max_open_files files have an open reader.
C1_FileBudget == (~ LockHeld) => Cardinality(OpenFiles) <= m_max_open_files

\* C1 witness: a call has returned with the budget full and a file that the
\* sweep closed.
C1_Witness ==
    /\ pc[1] = "gdone"
    /\ Cardinality(OpenFiles) = m_max_open_files
    /\ \E f \in DOMAIN m_texturefiles :
          ~ m_texturefiles[f].m_input /\ ~ m_texturefiles[f].m_broken

\* C2: after every call returns, the bytes of the tile buffers that only the
\* cache references are at most max_memory_MB * 2^20.
C2_TileBudget ==
    pc[1] \in {"idle", "done"} => CacheBytes <= m_max_memory_MB * (2 ^ 20)

\* C3: after texture() on a missing or broken file, every channel of every
\* active lane holds that lane's fill, at result[i * C + c].
C3_FillCoverage ==
    (pc[1] = "done" /\ ~ crashed /\ m_texturefiles[call[1].filename].m_broken)
    => \A i \in Active(call[1]) : \A k \in LaneCells(i, call[1].nchannels) :
          result[1][k] = Fill(i)

\* C4: after texture(), the result entries and the alpha entry of every lane
\* that is outside [first, last] or has its runflag off are what they were
\* before the call.
C4_OnlyActiveLanes ==
    (pc[1] = "done" /\ ~ crashed)
    => \A i \in Lanes \ Active(call[1]) :
          /\ \A k \in LaneCells(i, call[1].nchannels) : result[1][k] = PriorResult[k]
          /\ alpha[1][i] = PriorAlpha[i]

\* C5: the lookup of an active lane i inside the texture of a readable file
\* writes channel firstchannel + c of the addressed texel to result[i*C + c]
\* for c < actualchannels, and writes no result entry outside lane i's.
C5_LaneWrites ==
    [][ (/\ pc[1] = "lanes" /\ lane'[1] # lane[1]
         /\ LaneInside(call[1].filename, lane[1])
         /\ ~ crashed'
         /\ tilecache'[LaneTile(call[1].filename, lane[1])].loaded)
        => LET c == call[1]
               i == lane[1]
           IN  /\ \A k \in 0 .. (options[1].actualchannels - 1) :
                     result'[1][i * c.nchannels + k] =
                        Texel(c.filename, LaneS(c.filename, i),
                              LaneT(c.filename, i), c.firstchannel + k)
               /\ \A k \in MemCells \ LaneCells(i, c.nchannels) :
                     result'[1][k] = result[1][k] ]_vars

\* C6: when the file supplies fewer channels than requested, channels
\* [actualchannels, C) of every active lane hold the lane's fill after
\* texture() returns.
C6_MissingChannels ==
    (/\ pc[1] = "done" /\ ~ crashed
     /\ ~ m_texturefiles[call[1].filename].m_broken
     /\ options[1].actualchannels < call[1].nchannels)
    => \A i \in Active(call[1]) :
          \A k \in (i * call[1].nchannels + options[1].actualchannels) ..
                   (i * call[1].nchannels + call[1].nchannels - 1) :
             result[1][k] = Fill(i)

\* C7: when the reader failed to read the tile of an active lane, the lane's
\* result is its fill, the file is not marked broken, and the batch returns.
C7_ReadFailure ==
    (/\ pc[1] = "done" /\ ~ crashed
     /\ ~ m_texturefiles[call[1].filename].m_broken
     /\ options[1].actualchannels >= 1)
    => \A i \in Active(call[1]) :
          (/\ LaneInside(call[1].filename, i)
           /\ ~ tilecache[LaneTile(call[1].filename, i)].loaded)
          => \A k \in 0 .. (options[1].actualchannels - 1) :
                result[1][i * call[1].nchannels + k] = Fill(i)

\* C8: a broken file has no reader, and a file that is broken is registered,
\* broken and without a reader after every step: no operation repairs it or
\* opens a reader for it.
C8_BrokenTerminal ==
    [][ /\ \A f \in DOMAIN m_texturefiles' :
              m_texturefiles'[f].m_broken => ~ m_texturefiles'[f].m_input
        /\ \A f \in DOMAIN m_texturefiles :
              m_texturefiles[f].m_broken
              => /\ f \in DOMAIN m_texturefiles'
                 /\ m_texturefiles'[f].m_broken
                 /\ ~ m_texturefiles'[f].m_input ]_vars

\* C8 witness: a texture() call has returned on a broken file whose image is
\* back on disk and could be opened.
C8_Witness ==
    /\ ~ crashed /\ pc[1] = "done"
    /\ call[1].filename \in {"a", "b"}
    /\ m_texturefiles[call[1].filename].m_broken
    /\ disk[call[1].filename] = "ok"

\* The registry before any call.
FreshSys ==
    [crashed |-> FALSE, reopened |-> {}, files |-> << >>, open_files |-> 0,
     sweep |-> End, cache |-> << >>, hung |-> FALSE]

\* The lanes i .. c.last of the call c run with no other caller, on the
\* registry and cache sys: <<result, alpha>>.
RECURSIVE AloneLanes(_, _, _, _, _)
AloneLanes(c, o, sys, i, ra) ==
    IF i > c.last THEN ra
    ELSE LET f == c.filename
             spec == sys.files[f].m_spec[1]
             sint == TexelCoord(SCoord(i), spec.width)
             tint == TexelCoord(TCoord(i), spec.height)
             r == find_tile(sys, f, LookupTileID(f, spec, sint, tint))
         IN  AloneLanes(c, o, IF Outside(sint, tint, spec) THEN sys ELSE r[1],
                        NextActive(c, i + 1),
                        texture_lookup(c, o, spec, i, r[2], ra[1], ra[2]))

\* The outputs of the texture() call c when it is the only call ever made:
\* <<result, alpha>>.
Alone(c) ==
    LET sys == find_texturefile(FreshSys, c.filename)
        tf == sys.files[c.filename]
        o == BatchOptions(c, OptionsOf(c), tf)
        missing == AlphaMissing(o, c.nchannels)
        res1 == IF o.actualchannels < c.nchannels
                THEN ChannelFill(c, o.actualchannels, PriorResult)
                ELSE PriorResult
        al1 == IF missing THEN AlphaFill(c, PriorAlpha) ELSE PriorAlpha
        o2 == [o EXCEPT !.alpha = IF missing THEN FALSE ELSE @]
    IN  IF tf.m_broken THEN BrokenFill(c, PriorResult, PriorAlpha)
        ELSE IF o.actualchannels < 1 THEN << res1, al1 >>
        ELSE AloneLanes(c, o2, sys, NextActive(c, c.first), << res1, al1 >>)

\* C9: a texture() call that returns has written what the same call writes
\* when it runs alone, whatever the other caller did in between.
C9_Determinism ==
    \A th \in Threads :
        (pc[th] = "done" /\ ~ crashed)
        => << result[th], alpha[th] >> = Alone(call[th])

\* C9 witness: a two-lane texture() call has returned after the other caller's
\* registration closed its file and its own tile read reopened it.
C9_Witness ==
    /\ ~ crashed /\ pc[1] = "done" /\ call[1].last = 1
    /\ call[1].filename \in reopened
    /\ pc[2] \in {"gfound", "gdone", "found", "lanes", "done"}
    /\ call[2].filename # call[1].filename

\* The metadata of a TextureFile that its first successful open fills in.
Meta(tf) ==
    << tf.m_spec, tf.m_texformat, tf.m_swrap, tf.m_twrap, tf.m_cubelayout >>

\* A step in which read_tile runs on file f: called directly, or by the tile
\* constructor in a lookup that misses the cache.
ReadsTile(f) ==
    \/ FileReadTile(f)
    \/ /\ TextureLookup(1)
       /\ call[1].filename = f
       /\ LaneInside(f, lane[1])
       /\ LaneTile(f, lane[1]) \notin DOMAIN tilecache

\* C10: once a file was opened, its per-level specs, texture format, wrap
\* pair and cube layout are the same after every step; and read_tile on a
\* closed (not broken) file whose image can be opened leaves it with an open
\* reader.
C10_MetadataKept ==
    [][ \A f \in DOMAIN m_texturefiles :
           /\ Len(m_texturefiles[f].m_spec) > 0
              => /\ f \in DOMAIN m_texturefiles'
                 /\ Meta(m_texturefiles'[f]) = Meta(m_texturefiles[f])
           /\ (/\ ReadsTile(f)
               /\ Len(m_texturefiles[f].m_spec) > 0
               /\ ~ m_texturefiles[f].m_input
               /\ ~ m_texturefiles[f].m_broken
               /\ disk[f] = "ok")
              => m_texturefiles'[f].m_input ]_vars

\* C10 witness: a texture() call has returned on a file that was opened,
\* closed by release() and opened again by the read of its tile.
C10_Witness ==
    /\ ~ crashed /\ pc[1] = "done"
    /\ call[1].filename \in reopened
    /\ m_texturefiles[call[1].filename].m_input
    /\ \E id \in DOMAIN tilecache : tilecache[id].src = call[1].filename

\* ------------------------------------------------------------ metadata queries
\* A single caller querying the readable file "a" and the missing file "m"
\* for every name with every data type of one or two values.
InfoNames ==
    {"resolution", "channels", "textureformat", "wrapmodes", "orientation",
     "fovcot", "nosuchattribute"}

NextInfo ==
    \/ \E f \in {"a", "m"}, dn \in InfoNames,
          bt \in {PT_INT, PT_FLOAT, PT_STRING}, n \in {1, 2} :
          InfoFind(1, InfoCall(f, dn, ParamType(bt, n)))
    \/ InfoRead(1)
    \/ CallerDone(1)

SpecInfo == Init /\ [][NextInfo]_vars

\* The file of the caller's query is readable, and the attribute its query
\* names, as stored in the file (NoAttr when the file has none).
QueriedFileOk ==
    /\ ~ crashed /\ pc[1] = "gdone"
    /\ ~ m_texturefiles[call[1].filename].m_broken
QueriedAttr ==
    find_attribute(m_texturefiles[call[1].filename].m_spec[1], call[1].dataname)

\* C11: a query whose data type is not the stored attribute's type, other
\* than a stored int asked for as float, returns false and writes nothing to
\* the caller's buffer.
C11_TypeMismatch ==
    (/\ QueriedFileOk
     /\ QueriedAttr # NoAttr
     /\ QueriedAttr.type # call[1].datatype.basetype
     /\ ~ (QueriedAttr.type = PT_INT /\ call[1].datatype.basetype = PT_FLOAT))
    => info[1] = PriorInfo

\* C12: a query for a stored int attribute as float, with the stored number
\* of values, returns true and the output holds each stored int as a float.
C12_IntToFloat ==
    (/\ QueriedFileOk
     /\ QueriedAttr # NoAttr
     /\ QueriedAttr.type = PT_INT
     /\ call[1].datatype.basetype = PT_FLOAT
     /\ QueriedAttr.nvalues = call[1].datatype.arraylen)
    => /\ info[1].ok
       /\ info[1].data = [i \in 1 .. QueriedAttr.nvalues |-> F(QueriedAttr.data[i])]

\* ----------------------------------------------------------------- wrapping
\* A single caller sampling three lanes, the last one at s = -0.25, from
\* files with every kind of 'wrapmodes' attribute: a pair ("a"), none ("b"),
\* one name ("c"), "default" ("d") and a name that is no wrap mode ("e").
NextWrap ==
    \/ \E f \in {"a", "b", "c", "d", "e"},
          sw \in {WrapDefault, WrapBlack}, tw \in {WrapDefault, WrapBlack} :
          TextureFind(1, TexCallWrap(f, sw, tw, 1, 0, 2, AllOn))
    \/ TextureBatch(1)
    \/ TextureLookup(1)
    \/ CallerDone(1)

SpecWrap == Init /\ [][NextWrap]_vars

\* Lane i's s or t lies outside [0, 1).
LaneOutOfRange(i) ==
    SCoord(i) < 0 \/ SCoord(i) >= F(1) \/ TCoord(i) < 0 \/ TCoord(i) >= F(1)

\* C13: when texture() returns with both wrap modes Black, every channel of
\* every active lane whose s or t is outside [0, 1) holds the lane's fill.
C13_BlackWrapFill ==
    (/\ ~ crashed /\ pc[1] = "done"
     /\ ~ m_texturefiles[call[1].filename].m_broken
     /\ options[1].swrap = WrapBlack /\ options[1].twrap = WrapBlack)
    => \A i \in Active(call[1]) :
          LaneOutOfRange(i)
          => \A k \in LaneCells(i, call[1].nchannels) : result[1][k] = Fill(i)

\* ---------------------------------------------------------------- the sweep
\* C14: no find_texturefile call stays in the loop of check_max_files
\* forever: every call returns.
C14_SweepTerminates == \A th \in Threads : pc[th] # "hung"

\* The entries check_max_files calls release() on, in order, when it runs on
\* the registry sys; for a loop that never ends, the start of that sequence
\* up to the first iteration that repeats.
RECURSIVE SweepTargets(_)
SweepTargets(sys) ==
    IF ~ OverBudget(sys.open_files, m_max_open_files) THEN << >>
    ELSE LET s0 == IF sys.sweep = End
                   THEN [sys EXCEPT !.sweep = Begin(sys.files)]
                   ELSE sys
         IN  IF s0.sweep \in {End, Singular} THEN << >>
             ELSE LET s1 == release(s0, s0.sweep)
                  IN  IF s1 = sys THEN << s0.sweep, s0.sweep >>
                      ELSE << s0.sweep >> \o SweepTargets(s1)

\* C15: in every call that registers a file while the registry holds more
\* than one entry, no two consecutive release() calls of check_max_files
\* are on the same entry.
C15_SweepCircular ==
    [][ (/\ pc[1] = "idle" /\ pc'[1] # "idle"
         /\ call'[1].filename \notin DOMAIN m_texturefiles
         /\ Cardinality(DOMAIN m_texturefiles) > 1)
        => LET tr == SweepTargets(Sys)
           IN  \A k \in 1 .. (Len(tr) - 1) : tr[k] # tr[k + 1] ]_vars


\* ----------------------------------------------------- reading a broken file
\* A file on which read_tile cannot get a reader: it is broken already, or
\* it is closed and its image can no longer be opened.
NoReaderFor(f) ==
    \/ m_texturefiles[f].m_broken
    \/ ~ m_texturefiles[f].m_input /\ disk[f] # "ok"

\* C16: read_tile on a broken file, or on a closed file whose reopen inside
\* the call fails, returns failure without going through the reader: the
\* step does not abort the process, and the file is broken after it.
C16_BrokenRead ==
    [][ \A f \in DOMAIN m_texturefiles :
           (ReadsTile(f) /\ NoReaderFor(f))
           => /\ ~ crashed'
              /\ m_texturefiles'[f].m_broken ]_vars


\* ------------------------------------------------- the registry mutex, split
\* The locked sections of find_texturefile and find_tile taken in two steps:
\* the lock_guard is constructed, then the section runs and the guard is
\* destroyed.  A thread at "infind" or "intile" holds m_texturefiles_mutex.
\* A mutex that excludes nobody.
NoMutex == TRUE

\* m_texturefiles_mutex can be acquired: no thread is inside a locked section.
MutexFree == \A th \in Threads : pc[th] \notin {"infind", "intile", "hung"}

\* find_texturefile, line 354: the call starts and takes the mutex.
FindLock(th, c) ==
    /\ ~ crashed /\ MutexFree /\ Ready(th)
    /\ pc' = [pc EXCEPT ![th] = "infind"]
    /\ call' = [call EXCEPT ![th] = c]
    /\ UNCHANGED << disk, diskChanges, m_texturefiles, m_open_files,
                    m_max_open_files, m_max_memory_MB, m_file_sweep, tilecache,
                    crashed, reopened, options, lane, result, alpha, info >>

\* find_texturefile, lines 356-369: the locked section, for texture() and
\* for gettextureinfo().
LockedFind(th) ==
    /\ ~ crashed /\ pc[th] = "infind"
    /\ LET c == call[th]
           s == find_texturefile(Sys, c.filename)
       IN  /\ Commit(s)
           /\ pc' = [pc EXCEPT ![th] =
                 IF s.hung THEN "hung"
                 ELSE IF c.op = "texture" THEN "found" ELSE "gfound"]
           /\ options' = [options EXCEPT ![th] = OptionsOf(c)]
           /\ lane' = [lane EXCEPT ![th] = c.first]
    /\ result' = [result EXCEPT ![th] = PriorResult]
    /\ alpha' = [alpha EXCEPT ![th] = PriorAlpha]
    /\ info' = [info EXCEPT ![th] = PriorInfo]
    /\ UNCHANGED << disk, diskChanges, m_max_open_files, m_max_memory_MB, call >>

\* find_tile, line 392: the lookup of a lane inside the texture takes the
\* mutex.
TileLock(th) ==
    /\ ~ crashed /\ MutexFree /\ pc[th] = "lanes"
    /\ LaneInside(call[th].filename, lane[th])
    /\ pc' = [pc EXCEPT ![th] = "intile"]
    /\ UNCHANGED << disk, diskChanges, m_texturefiles, m_open_files,
                    m_max_open_files, m_max_memory_MB, m_file_sweep, tilecache,
                    crashed, reopened, call, options, lane, result, alpha, info >>

\* find_tile, lines 393-402, and the rest of texture_lookup for the lane.
LockedLookup(th) ==
    /\ ~ crashed /\ pc[th] = "intile"
    /\ LET c == call[th]
           i == lane[th]
           f == c.filename
           spec == m_texturefiles[f].m_spec[1]
           r == find_tile(Sys, f, LaneTile(f, i))
           g == texture_lookup(c, options[th], spec, i, r[2], result[th], alpha[th])
           n == NextActive(c, i + 1)
       IN  /\ Commit(r[1])
           /\ result' = [result EXCEPT ![th] =
                 IF r[1].crashed THEN LookupHead(c, i, @) ELSE g[1]]
           /\ alpha' = [alpha EXCEPT ![th] = IF r[1].crashed THEN @ ELSE g[2]]
           /\ lane' = [lane EXCEPT ![th] = n]
           /\ pc' = [pc EXCEPT ![th] = IF n > c.last THEN "done" ELSE "lanes"]
    /\ UNCHANGED << disk, diskChanges, m_max_open_files, m_max_memory_MB,
                    call, options, info >>

\* Two threads calling texture() and gettextureinfo() on the files "a" and
\* "b" with a budget of 1 or 100 open files, every locked section in two
\* steps; the lanes 0 and 1 of the texture() calls are inside the texture.
NextLock ==
    \/ SetMaxOpenFiles(1)
    \/ \E th \in Threads, f \in {"a", "b"} :
          FindLock(th, TexCall(f, 1, 0, FALSE, 0, 1, AllOn))
    \/ \E th \in Threads, f \in {"a", "b"} :
          FindLock(th, InfoCall(f, "channels", ParamType(PT_INT, 1)))
    \/ \E th \in Threads : LockedFind(th)
    \/ \E th \in Threads : TextureBatch(th)
    \/ \E th \in Threads : TileLock(th)
    \/ \E th \in Threads : LockedLookup(th)
    \/ \E th \in Threads : InfoRead(th)
    \/ \E th \in Threads : CallerDone(th)

SpecLock == Init /\ [][NextLock]_vars

\* The registered files whose reader state thread th is operating on: in
\* find_tile with a cache miss, the file read_tile (open, seek_subimage,
\* read_tile) runs on; in find_texturefile of a new name, the entries
\* check_max_files calls release() (close) on.
InReader(th) ==
    IF pc[th] = "intile"
    THEN IF LaneTile(call[th].filename, lane[th]) \notin DOMAIN tilecache
         THEN {call[th].filename} ELSE {}
    ELSE IF pc[th] = "infind" /\ call[th].filename \notin DOMAIN m_texturefiles
    THEN LET tr == SweepTargets(Sys) IN { tr[k] : k \in 1 .. Len(tr) }
    ELSE {}

\* C17: no two threads are at the same time inside reader operations of the
\* same TextureFile.
C17_ReaderExclusion ==
    \A t1, t2 \in Threads : t1 # t2 => InReader(t1) \cap InReader(t2) = {}

\* C17 witness: one thread is inside read_tile of a file while the other
\* thread stands before find_tile for a tile of the same file that is not in
\* the cache.
C17_Witness ==
    /\ ~ crashed
    /\ pc[1] = "intile" /\ InReader(1) # {}
    /\ pc[2] = "lanes"
    /\ call[2].filename = call[1].filename
    /\ LaneInside(call[2].filename, lane[2])
    /\ LaneTile(call[2].filename, lane[2]) \notin DOMAIN tilecache


\* ------------------------------------------------------- wrap mode defaults
\* The wrap modes a file may declare.
DeclaredWraps == {WrapBlack, WrapClamp, WrapPeriodic, WrapMirror}

\* C18: after the batch-level wrap defaulting of texture() on a non-broken
\* file, options.swrap and options.twrap are not Default, and the wrap pair
\* of every readable registered file is within Black, Clamp, Periodic,
\* Mirror.
C18_WrapResolved ==
    /\ \A f \in DOMAIN m_texturefiles :
          ~ m_texturefiles[f].m_broken
          => /\ m_texturefiles[f].m_swrap \in DeclaredWraps
             /\ m_texturefiles[f].m_twrap \in DeclaredWraps
    /\ \A th \in Threads :
          (/\ pc[th] \in {"lanes", "done"}
           /\ call[th].op = "texture"
           /\ ~ m_texturefiles[call[th].filename].m_broken)
          => /\ options[th].swrap # WrapDefault
             /\ options[th].twrap # WrapDefault


\* ----------------------------------------------------------- tile alignment
\* C19: every TileID resolved through the cache is tile-aligned, and the
\* in-tile texel offset of every lookup inside the texture is less than
\* tile_width * tile_height, whatever the tile size.
C19_TileAligned ==
    /\ \A id \in DOMAIN tilecache :
          LET spec == m_texturefiles[id[1]].m_spec[1]
          IN  /\ id[3] % spec.tile_width = 0
              /\ id[4] % spec.tile_height = 0
    /\ \A th \in Threads :
          (pc[th] = "lanes" /\ LaneInside(call[th].filename, lane[th]))
          => LET f == call[th].filename
                 spec == m_texturefiles[f].m_spec[1]
             IN  LookupOffset(spec, LaneS(f, lane[th]), LaneT(f, lane[th]))
                    < tile_pixels(spec)


\* --------------------------------------------------------- the alpha channel
\* C20: a lookup that writes alpha[i] reads a channel of the file
\* (firstchannel + actualchannels is less than the file's channel count); and
\* when the file has no channel after the last requested color, alpha[i] of
\* every active lane is the lane's fill when texture() returns.
C20_AlphaChannel ==
    [][ /\ (/\ pc[1] = "lanes"
            /\ TextureLookup(1)
            /\ options[1].alpha
            /\ LaneInside(call[1].filename, lane[1]))
           => call[1].firstchannel + options[1].actualchannels
                 < m_texturefiles[call[1].filename].m_spec[1].nchannels
        /\ (/\ pc'[1] = "done" /\ ~ crashed'
            /\ call'[1].wantalpha
            /\ ~ m_texturefiles'[call'[1].filename].m_broken
            /\ call'[1].firstchannel + options'[1].actualchannels
                  >= m_texturefiles'[call'[1].filename].m_spec[1].nchannels)
           => \A i \in Active(call'[1]) : alpha'[1][i] = Fill(i) ]_vars


\* ------------------------------------------- the file budget and tile reads
\* A single caller sampling the files "a", "b" and "c" one lane at a time,
\* with a budget of 1, 2 or 100 open files; lanes 0 and 1 of "a" are in
\* different tiles.
NextBudget ==
    \/ \E n \in 1 .. 2 : SetMaxOpenFiles(n)
    \/ \E f \in {"a", "b", "c"}, i \in 0 .. 1 :
          TextureFind(1, TexCall(f, 1, 0, FALSE, i, i, AllOn))
    \/ TextureBatch(1)
    \/ TextureLookup(1)
    \/ CallerDone(1)

SpecBudget == Init /\ [][NextBudget]_vars

\* C21: when a texture() call of the single caller returns, at most
\* max_open_files files have an open reader, also when the call reopened,
\* through read_tile, a registered file that the sweep had closed.
C21_BudgetAcrossReads ==
    (pc[1] = "done" /\ ~ crashed)
    => /\ Cardinality(OpenFiles) <= m_max_open_files
       /\ m_open_files <= m_max_open_files

====
